---- MODULE Spec2Model ----
(***************************************************************************)
(* Deck compilation pipeline of desksky: the /create-slides handler and    *)
(* POST /api/presentations (SlidesGenerator), from src/app.py and          *)
(* src/slides_generator.py.                                                *)
(*                                                                         *)
(* Text is a sequence of one-character strings, so that strip(), join()    *)
(* and the "or" fallbacks of the code are computed, not assumed.           *)
(***************************************************************************)
EXTENDS Integers, Sequences, FiniteSets, TLC

VARIABLES
    route,            \* which handler is serving the request ("none" before it arrives)
    pc,               \* position of the handler in its code
    title,            \* request title (form field / JSON field)
    num_slides,       \* requested slide count
    outline,          \* what the outline generator returned (after json.loads)
    slides_content,   \* normalized slides (app.py) / parsed slides (SlidesGenerator)
    presentation_id,  \* identifier the service gave the new presentation (0: none)
    slide_ids,        \* create_slides: page ids taken from the creation reply
    read_index,       \* create_slides: 0-based index of the next page read
    text_requests,    \* create_slides: population batch being assembled
    all_requests,     \* the operations compiled for the (first) batchUpdate
    calls,            \* every call made to the authoring service, in order
    saved,            \* Presentation rows committed to the database
    response,         \* what the caller receives
    theme_id,         \* theme identifier of the request
    theme,            \* SlidesGenerator.theme
    PRESENTATION_THEMES, \* the process-wide theme table of themes.py
    lookups,          \* what each call into themes.py returned, in order
    slide_in,         \* a slide handed to transform_slide_content
    transformed,      \* what transform_slide_content returned for it
    resolved,         \* its text requests after the placeholder replacement
    workers,          \* two SlidesGenerator requests served at the same time
    session,          \* the browser session of the OAuth flow
    oauth,            \* position and locals of the oauth2callback being served
    current_user,     \* the user flask_login holds as logged in
    users,            \* User rows, by email
    logins,           \* the state value of every callback that logged a user in
    issued            \* how many state values login() has handed out

vars == << route, pc, title, num_slides, outline, slides_content, presentation_id,
           slide_ids, read_index, text_requests, all_requests, calls, saved,
           response, theme_id, theme, PRESENTATION_THEMES, lookups, slide_in,
           transformed, resolved, workers, session, oauth, current_user, users,
           logins, issued >>

\* the state of themes.py and of the generator built on it
themeVars == << theme_id, theme, PRESENTATION_THEMES, lookups >>
\* the state of a direct use of transform_slide_content
compilerVars == << slide_in, transformed, resolved >>
\* the generators of two requests in flight
workerVars == << workers >>
\* the state of the OAuth routes
oauthVars == << session, oauth, current_user, users, logins, issued >>
\* the state of the two compilation handlers
pipelineVars == << route, pc, title, num_slides, outline, slides_content,
                   presentation_id, slide_ids, read_index, text_requests, all_requests,
                   calls, saved, response >>

-----------------------------------------------------------------------------
(* Bounds of the model *)

\* longest outline the generator returns
MaxSlides == 2
\* largest requested slide count
MaxCount == 2
\* the slide counts a request may ask for: the least and the greatest
SlideCounts == { 1, MaxCount }

-----------------------------------------------------------------------------
(* Text *)

\* the characters str.strip() removes
IsSpace(c) == c \in { " ", "\n" }

RECURSIVE LStrip(_)
LStrip(s) == IF s # <<>> /\ IsSpace(Head(s)) THEN LStrip(Tail(s)) ELSE s

RECURSIVE RStrip(_)
RStrip(s) ==
    IF s # <<>> /\ IsSpace(s[Len(s)]) THEN RStrip(SubSeq(s, 1, Len(s) - 1)) ELSE s

\* str.strip()
Strip(s) == RStrip(LStrip(s))

\* The request's title when the field is missing (Python None)
NoneTitle == << "<None>" >>

\* Python truthiness of a str-or-None value
Truthy(t) == t # <<>> /\ t # NoneTitle

Digit(k) == << "0", "1", "2", "3", "4", "5", "6", "7", "8", "9" >>[k + 1]

\* f"Slide {i+1}", for the 1-based position k
SlideLabel(k) == << "S", "l", "i", "d", "e", " ", Digit(k) >>

UntitledSlide ==
    << "U", "n", "t", "i", "t", "l", "e", "d", " ", "S", "l", "i", "d", "e" >>

\* [f(x) for x in s]
StripAll(s) == [ k \in 1..Len(s) |-> Strip(s[k]) ]

-----------------------------------------------------------------------------
(* Generator output: the value json.loads gives, or the way it fails *)

TC_KEYS == { "title", "content" }
LEGACY_KEYS == { "type", "main_points" }

\* {"title": t, "content": c}
TC(t, c) ==
    [ isDict |-> TRUE, keys |-> TC_KEYS, title |-> t, content |-> c,
      contentIsList |-> TRUE, main_points |-> <<>> ]

\* {"type": ..., "main_points": mp}
Legacy(mp) ==
    [ isDict |-> TRUE, keys |-> LEGACY_KEYS, title |-> <<>>, content |-> <<>>,
      contentIsList |-> TRUE, main_points |-> mp ]

\* an entry that is no object at all (a string, a number)
NonDict ==
    [ isDict |-> FALSE, keys |-> {}, title |-> <<>>, content |-> <<>>,
      contentIsList |-> TRUE, main_points |-> <<>> ]

\* {"title": t}: the content key is missing
TitleOnly(t) ==
    [ isDict |-> TRUE, keys |-> { "title" }, title |-> t, content |-> <<>>,
      contentIsList |-> TRUE, main_points |-> <<>> ]

\* {"title": t, "content": "text"}: content is not a list
ContentNotList(t) ==
    [ isDict |-> TRUE, keys |-> TC_KEYS, title |-> t, content |-> <<>>,
      contentIsList |-> FALSE, main_points |-> <<>> ]

\* {"content": c}: the title key is missing
ContentOnly(c) ==
    [ isDict |-> TRUE, keys |-> { "content" }, title |-> <<>>, content |-> c,
      contentIsList |-> TRUE, main_points |-> <<>> ]

tA == << "a" >>
tPad == << " ", "b" >>
tWs == << " " >>
pX == << "x" >>
pY == << "y", " " >>

WellFormedEntries ==
    { TC(tA, <<>>), TC(tPad, << pX, pY >>), TC(<<>>, << pY >>), TC(tWs, <<>>),
      Legacy(<<>>), Legacy(<< tA >>), Legacy(<< tPad, pY, pX >>),
      Legacy(<< <<>>, pX >>) }

MalformedEntries == { NonDict, TitleOnly(tA), ContentNotList(tA), ContentOnly(<< pX >>) }

Entries == WellFormedEntries \cup MalformedEntries

SeqsUpTo(S, n) == UNION { [ 1..k -> S ] : k \in 0..n }

\* kind "error": the generator call itself raised; "unparseable": json.loads
\* raised JSONDecodeError; "notlist": it parsed to something that is no list
Outlines ==
    { [ kind |-> k, entries |-> <<>> ] : k \in { "error", "unparseable", "notlist" } }
    \cup { [ kind |-> "list", entries |-> es ] : es \in SeqsUpTo(Entries, MaxSlides) }

NoOutline == [ kind |-> "none", entries |-> <<>> ]

IsWellFormed(o) ==
    o.kind = "list" /\ \A k \in 1..Len(o.entries) : o.entries[k] \in WellFormedEntries

IsMalformed(o) ==
    \/ o.kind \in { "unparseable", "notlist" }
    \/ o.kind = "list" /\ \E k \in 1..Len(o.entries) : o.entries[k] \in MalformedEntries

RequestTitles == { NoneTitle, <<>>, << "q" >> }

-----------------------------------------------------------------------------
(* Python dicts: a record is a function from its keys *)

\* d.get(key, default)
Get(d, key, default) == IF key \in DOMAIN d THEN d[key] ELSE default

-----------------------------------------------------------------------------
(* Content normalizer of /create-slides: generate_slide_content_with_gpt *)

Raised == [ raised |-> TRUE, title |-> <<>>, slide |-> NonDict ]

\* "Convert old format if needed": the branch on a dict entry. The assignment
\* to title rebinds the function's own parameter.
ConvertOldFormat(slide, title_var) ==
    IF slide.isDict /\ LEGACY_KEYS \subseteq slide.keys
    THEN LET t == IF slide.main_points # <<>> THEN slide.main_points[1] ELSE title_var
             c == IF Len(slide.main_points) > 1 THEN Tail(slide.main_points) ELSE <<>>
         IN  [ raised |-> FALSE, title |-> t, slide |-> TC(t, c) ]
    ELSE IF slide.isDict /\ ~(TC_KEYS \subseteq slide.keys)
    THEN Raised
    ELSE [ raised |-> FALSE, title |-> title_var, slide |-> slide ]

\* "Validate slide structure": TRUE when a ValueError is raised
ValidateRaises(slide) ==
    \/ ~slide.isDict
    \/ ~slide.contentIsList

\* str(slide.get('title', '')).strip() or f"Slide {i+1}", at 0-based index i
TitleOrLabel(slide, i) ==
    LET t == Strip(IF "title" \in slide.keys THEN slide.title ELSE <<>>)
    IN  IF t # <<>> THEN t ELSE SlideLabel(i + 1)

\* "Create processed slide with only required fields", at 0-based index i
ProcessedSlide(slide, i, title_var) ==
    [ id |-> i + 1,
      title |-> IF i = 0 THEN title_var ELSE TitleOrLabel(slide, i),
      content |-> StripAll(IF "content" \in slide.keys THEN slide.content ELSE <<>>) ]

NormFailed == [ raised |-> TRUE, slides |-> <<>> ]

\* the same loop cut off at the requested slide count
RECURSIVE ProcessSlidesTruncating(_, _, _, _)
ProcessSlidesTruncating(slides, k, title_var, acc) ==
    IF k > Len(slides) \/ k > num_slides
    THEN [ raised |-> FALSE, slides |-> acc ]
    ELSE LET conv == ConvertOldFormat(slides[k], title_var)
         IN  IF conv.raised \/ ValidateRaises(conv.slide)
             THEN NormFailed
             ELSE ProcessSlidesTruncating(slides, k + 1, conv.title,
                      Append(acc, ProcessedSlide(conv.slide, k - 1, conv.title)))

\* the loop "for i, slide in enumerate(slides)"; k is the 1-based position
RECURSIVE ProcessSlides(_, _, _, _)
ProcessSlides(slides, k, title_var, acc) ==
    IF k > Len(slides)
    THEN [ raised |-> FALSE, slides |-> acc ]
    ELSE LET conv == ConvertOldFormat(slides[k], title_var)
         IN  IF conv.raised \/ ValidateRaises(conv.slide)
             THEN NormFailed
             ELSE ProcessSlides(slides, k + 1, conv.title,
                      Append(acc, ProcessedSlide(conv.slide, k - 1, conv.title)))

\* generate_slide_content_with_gpt(title, topic, num_slides), given what the
\* generator returned: every failure leaves as ValueError
GenerateSlideContentWithGpt(t, o) ==
    IF o.kind # "list" THEN NormFailed ELSE ProcessSlides(o.entries, 1, t, <<>>)

-----------------------------------------------------------------------------
(* Themes: src/themes.py and SlidesGenerator.__init__ *)

\* Color components are counted in units of 1/510, so that n/255.0 and the
\* literals 0.2 and 0.9 of the default theme are all exact.
ColorUnit == 2 * 255

HexDigits ==
    << "0", "1", "2", "3", "4", "5", "6", "7", "8", "9", "A", "B", "C", "D", "E", "F" >>

HexVal(c) == (CHOOSE k \in 1..Len(HexDigits) : HexDigits[k] = c) - 1

RECURSIVE LStripHash(_)
\* hex_color.lstrip('#')
LStripHash(s) == IF s # <<>> /\ Head(s) = "#" THEN LStripHash(Tail(s)) ELSE s

\* hex_to_rgb_float(hex_color)
HexToRgbFloat(hex_color) ==
    LET h == LStripHash(hex_color)
        \* int(h[i:i+2], 16) / 255.0
        component(i) == (16 * HexVal(h[i + 1]) + HexVal(h[i + 2])) * (ColorUnit \div 255)
    IN  [ red |-> component(0), green |-> component(2), blue |-> component(4),
          alpha |-> ColorUnit ]

\* PRESENTATION_THEMES as the module defines it
InitialThemes ==
    [
      corporate |->
          [ name |-> "Corporate", description |-> "Clean and professional",
            colors |-> [ background |-> << "#", "F", "F", "F", "F", "F", "F" >>,
                       title_text |-> << "#", "0", "0", "3", "3", "6", "6" >>,
                       body_text |-> << "#", "0", "0", "0", "0", "0", "0" >>,
                       shape_fill |-> << "#", "E", "6", "E", "E", "F", "4" >> ] ],
      elegant |->
          [ name |-> "Elegant", description |-> "Soft, classy tones",
            colors |-> [ background |-> << "#", "F", "D", "F", "D", "F", "D" >>,
                       title_text |-> << "#", "5", "C", "5", "4", "7", "0" >>,
                       body_text |-> << "#", "3", "3", "3", "3", "3", "3" >>,
                       shape_fill |-> << "#", "E", "A", "E", "A", "E", "A" >> ] ],
      vibrant |->
          [ name |-> "Vibrant", description |-> "Energetic and colorful",
            colors |-> [ background |-> << "#", "F", "F", "F", "B", "E", "C" >>,
                       title_text |-> << "#", "F", "F", "6", "F", "0", "0" >>,
                       body_text |-> << "#", "2", "1", "2", "1", "2", "1" >>,
                       shape_fill |-> << "#", "F", "F", "D", "1", "8", "0" >> ] ],
      minimal |->
          [ name |-> "Minimal", description |-> "Modern and clean",
            colors |-> [ background |-> << "#", "F", "A", "F", "A", "F", "A" >>,
                       title_text |-> << "#", "2", "1", "2", "1", "2", "1" >>,
                       body_text |-> << "#", "4", "2", "4", "2", "4", "2" >>,
                       shape_fill |-> << "#", "B", "D", "B", "D", "B", "D" >> ] ],
      dark |->
          [ name |-> "Dark Mode", description |-> "High contrast",
            colors |-> [ background |-> << "#", "1", "E", "1", "E", "1", "E" >>,
                       title_text |-> << "#", "F", "5", "F", "5", "F", "5" >>,
                       body_text |-> << "#", "E", "0", "E", "0", "E", "0" >>,
                       shape_fill |-> << "#", "3", "3", "3", "3", "3", "3" >> ] ] ]

\* the fallback of SlidesGenerator.__init__ (1.0, 0.0, 0.2, 0.9; no alpha)
DefaultTheme ==
    [ rgb_colors |->
        [ background |-> [ red |-> ColorUnit, green |-> ColorUnit, blue |-> ColorUnit ],
          title_text |-> [ red |-> 0, green |-> 0, blue |-> 0 ],
          body_text |-> [ red |-> ColorUnit \div 5, green |-> ColorUnit \div 5,
                          blue |-> ColorUnit \div 5 ],
          shape_fill |-> [ red |-> (9 * ColorUnit) \div 10, green |-> (9 * ColorUnit) \div 10,
                           blue |-> (9 * ColorUnit) \div 10 ] ] ]

\* self.theme before the generator is constructed
NoTheme == [ unset |-> TRUE ]

\* d with d[key] = value assigned
Assign(d, key, value) ==
    [ x \in DOMAIN d \cup { key } |-> IF x = key THEN value ELSE d[x] ]

Black == << "#", "0", "0", "0", "0", "0", "0" >>

\* a conversion that gives black once the entry holds converted colors
RgbColorsStale(theme_d) ==
    [ key \in DOMAIN theme_d.colors |->
        HexToRgbFloat(IF "rgb_colors" \in DOMAIN theme_d THEN Black
                      ELSE theme_d.colors[key]) ]

\* "Convert hex colors to RGB floats": the loop of get_theme over
\* theme['colors'].items()
RgbColorsOf(theme_d) ==
    [ key \in DOMAIN theme_d.colors |-> HexToRgbFloat(theme_d.colors[key]) ]

\* a get_theme that converts the colors in place (rgb_colors aliases
\* theme['colors']): a second lookup finds no hex string to convert
GetThemeInPlace(table, theme_id_arg) ==
    IF theme_id_arg \notin DOMAIN table \/ "rgb_colors" \in DOMAIN table[theme_id_arg]
    THEN [ raised |-> TRUE, theme |-> NoTheme, table |-> table ]
    ELSE LET theme_d == table[theme_id_arg]
             rgb_colors == [ key \in DOMAIN theme_d.colors |->
                               HexToRgbFloat(theme_d.colors[key]) ]
             updated == Assign(Assign(theme_d, "colors", rgb_colors),
                               "rgb_colors", rgb_colors)
         IN  [ raised |-> FALSE, theme |-> updated,
               table |-> [ table EXCEPT ![theme_id_arg] = updated ] ]

\* get_theme(theme_id) on the process-wide table: the theme it returns is the
\* table's own entry, to which it assigns the key 'rgb_colors'
GetTheme(table, theme_id_arg) ==
    IF theme_id_arg \notin DOMAIN table
    THEN [ raised |-> TRUE, theme |-> NoTheme, table |-> table ]
    ELSE LET theme_d == table[theme_id_arg]
             updated == Assign(theme_d, "rgb_colors", RgbColorsOf(theme_d))
         IN  [ raised |-> FALSE, theme |-> updated,
               table |-> [ table EXCEPT ![theme_id_arg] = updated ] ]

\* get_theme_choices()
GetThemeChoices(table) ==
    { [ id |-> tid, name |-> table[tid].name, description |-> table[tid].description ] :
        tid \in DOMAIN table }

\* an __init__ without the try/except around get_theme
SlidesGeneratorInitUnguarded(table, theme_id_arg) ==
    LET r == GetTheme(table, theme_id_arg)
    IN  [ raised |-> r.raised, theme |-> r.theme, table |-> r.table ]

\* SlidesGenerator.__init__(credentials, theme_id): self.theme and the table
\* afterwards; neither failure of the lookup leaves the constructor
SlidesGeneratorInit(table, theme_id_arg) ==
    LET r == GetTheme(table, theme_id_arg)
    IN  IF r.raised \/ "rgb_colors" \notin DOMAIN r.theme
        THEN [ raised |-> FALSE, theme |-> DefaultTheme, table |-> r.table ]
        ELSE [ raised |-> FALSE, theme |-> r.theme, table |-> r.table ]

\* the theme identifiers a request may carry
ThemeIds == { "corporate", "dark", "nonexistent" }

-----------------------------------------------------------------------------
(* Wire operations *)

NoId == [ ns |-> "none", page |-> 0, part |-> "" ]
\* '{{TITLE}}' and the like: pipeline-local tokens
Token(name) == [ ns |-> "token", page |-> 0, part |-> name ]
\* identifier of a placeholder element, assigned by the service
ElementId(page, ptype) == [ ns |-> "service", page |-> page, part |-> ptype ]
\* identifiers SlidesGenerator derives from its uuid4 slide id
OwnId(u, part) == [ ns |-> "uuid", page |-> u, part |-> part ]

\* the color of an operation that sets none
NoColor == [ none |-> TRUE ]

\* the insertionIndex of an operation that carries none
NoIndex == -1

Op(kind, oid, text, layout, mappings, color) ==
    [ op |-> kind, objectId |-> oid, text |-> text, layout |-> layout,
      mappings |-> mappings, color |-> color, insertionIndex |-> NoIndex ]

CreateSlideOp(oid, layout, mappings) ==
    Op("createSlide", oid, <<>>, layout, mappings, NoColor)
InsertTextOp(oid, text) == Op("insertText", oid, text, "", {}, NoColor)
UpdateTextStyleOp(oid, color) == Op("updateTextStyle", oid, <<>>, "", {}, color)
UpdatePagePropertiesOp(oid, color) == Op("updatePageProperties", oid, <<>>, "", {}, color)
UpdateShapePropertiesOp(oid, color) == Op("updateShapeProperties", oid, <<>>, "", {}, color)

-----------------------------------------------------------------------------
(* Request compiler of /create-slides: transform_slide_content *)

layout_mapping ==
    [ TITLE |-> "TITLE", AGENDA |-> "SECTION_HEADER", SECTION |-> "TITLE_AND_BODY",
      SUMMARY |-> "TITLE_AND_BODY", CLOSING |-> "SECTION_HEADER" ]

\* layout_mapping.get(slide_type, 'TITLE_AND_BODY')
LayoutOf(slide_type) ==
    IF slide_type \in DOMAIN layout_mapping
    THEN layout_mapping[slide_type] ELSE "TITLE_AND_BODY"

RECURSIVE Join(_, _)
\* sep.join(parts)
Join(sep, parts) ==
    IF parts = <<>> THEN <<>>
    ELSE IF Len(parts) = 1 THEN parts[1]
    ELSE parts[1] \o sep \o Join(sep, Tail(parts))

BulletSep == << "\n", "*", " " >>

\* ('\n* ' + '\n* '.join(points)).strip(), "*" standing for the bullet glyph
BulletBlock(points) == Strip(BulletSep \o Join(BulletSep, points))

Prefixed(label, text) == label \o text

\* one insertText when cond holds
TextIf(cond, token, text) == IF cond THEN << InsertTextOp(Token(token), text) >> ELSE <<>>

\* the text_requests of transform_slide_content, by slide type
TextRequestsOf(slide) ==
    LET slide_type == Get(slide, "type", "TITLE")
        has(key) == Get(slide, key, <<>>) # <<>>
        points == TextIf(has("points"), "BODY", BulletBlock(Get(slide, "points", <<>>)))
        subtitle == TextIf(has("subtitle"), "SUBTITLE", Get(slide, "subtitle", <<>>))
    IN  CASE slide_type = "TITLE" ->
               << InsertTextOp(Token("TITLE"), Get(slide, "title", <<>>)) >>
               \o subtitle
               \o TextIf(has("presenter"), "BODY",
                         Prefixed(<< "Presenter: " >>, Get(slide, "presenter", <<>>)))
               \o TextIf(has("date"), "FOOTER",
                         Prefixed(<< "Date: " >>, Get(slide, "date", <<>>)))
          [] slide_type = "AGENDA" ->
               << InsertTextOp(Token("TITLE"), Get(slide, "title", << "Agenda" >>)) >>
               \o points
          [] slide_type = "SECTION" ->
               << InsertTextOp(Token("TITLE"), Get(slide, "title", <<>>)) >>
               \o points
               \o TextIf(has("visual_guidance"), "FOOTER",
                         Prefixed(<< "Visual Guidance: " >>, Get(slide, "visual_guidance", <<>>)))
          [] slide_type = "SUMMARY" ->
               << InsertTextOp(Token("TITLE"), Get(slide, "title", << "Key Takeaways" >>)) >>
               \o points
          [] slide_type = "CLOSING" ->
               << InsertTextOp(Token("TITLE"), Get(slide, "title", << "Thank You" >>)) >>
               \o subtitle
               \o TextIf(has("contact"), "FOOTER",
                         Prefixed(<< "Contact: " >>, Get(slide, "contact", <<>>)))
          [] OTHER -> <<>>

\* transform_slide_content(slide)
TransformSlideContent(slide) ==
    LET layout == LayoutOf(Get(slide, "type", "TITLE"))
    IN  [ layout |-> layout,
          create_request |-> CreateSlideOp(NoId, layout, {}),
          text_requests |-> TextRequestsOf(slide) ]

-----------------------------------------------------------------------------
(* SlidesGenerator: _parse_gpt_response *)

\* point.replace('"', "'")
ReplaceQuotes(s) == [ k \in 1..Len(s) |-> IF s[k] = "\"" THEN "'" ELSE s[k] ]

RECURSIVE CleanPoints(_)
\* [point.strip().replace('"', "'") for point in main_points if point.strip()]
CleanPoints(points) ==
    IF points = <<>> THEN <<>>
    ELSE LET p == Strip(Head(points))
         IN  (IF p # <<>> THEN << ReplaceQuotes(p) >> ELSE <<>>) \o CleanPoints(Tail(points))

\* the checks of "Validate structure" on one slide: TRUE when ValueError is raised
SlideInvalid(slide) ==
    \/ ~slide.isDict
    \/ ~(LEGACY_KEYS \subseteq slide.keys)
    \/ slide.main_points = <<>>

ParsedNone == [ none |-> TRUE, slides |-> <<>> ]

\* _parse_gpt_response(response): None on every exception
ParseGptResponse(o) ==
    IF o.kind # "list" THEN ParsedNone
    ELSE IF \E k \in 1..Len(o.entries) : SlideInvalid(o.entries[k]) THEN ParsedNone
    ELSE [ none |-> FALSE,
           slides |-> [ k \in 1..Len(o.entries) |->
                          [ o.entries[k] EXCEPT !.main_points = CleanPoints(@) ] ] ]

\* generate_content(title, num_slides): None when the completion call raises
GenerateContent(o) == IF o.kind = "error" THEN ParsedNone ELSE ParseGptResponse(o)

-----------------------------------------------------------------------------
(* SlidesGenerator: _apply_theme_to_slide, transform_slide_to_requests *)

\* _apply_theme_to_slide(slide_id)
\* the slots of self.theme['rgb_colors'] that the compilation of one slide
\* reads, in the order it reads them
StyleSlots ==
    << "background", "title_text", "body_text", "shape_fill", "title_text", "body_text" >>

\* the colors one slide's compilation reads when the theme is th throughout
ReadsOf(th) == [ k \in 1..Len(StyleSlots) |-> th.rgb_colors[StyleSlots[k]] ]

\* _apply_theme_to_slide(slide_id), c being the colors it read
ApplyThemeToSlideWith(c, u) ==
    << UpdatePagePropertiesOp(OwnId(u, "page"), c[1]),
       UpdateTextStyleOp(OwnId(u, "title"), c[2]),
       UpdateTextStyleOp(OwnId(u, "body"), c[3]),
       UpdateShapePropertiesOp(OwnId(u, "page"), c[4]) >>

\* _apply_theme_to_slide(slide_id) of the generator of the request
ApplyThemeToSlide(u) == ApplyThemeToSlideWith(ReadsOf(theme), u)

BulletPrefix == << "*", " " >>

\* "\n".join([f"* {str(point).strip()}" for point in slide.get('content', [])])
BodyText(content) ==
    Join(<< "\n" >>, [ k \in 1..Len(content) |-> BulletPrefix \o Strip(content[k]) ])

\* transform_slide_to_requests(slide), u being the uuid4 drawn for the slide and
\* c the colors read from self.theme on the way
TransformSlideToRequestsWith(slide, u, c) ==
    << CreateSlideOp(OwnId(u, "page"), "TITLE_AND_BODY",
           { [ type |-> "TITLE", objectId |-> OwnId(u, "title") ],
             [ type |-> "BODY", objectId |-> OwnId(u, "body") ] }) >>
    \o ApplyThemeToSlideWith(c, u)
    \o << InsertTextOp(OwnId(u, "title"), slide.title),
          InsertTextOp(OwnId(u, "body"),
              BodyText(IF "content" \in slide.keys THEN slide.content ELSE <<>>)),
          UpdateTextStyleOp(OwnId(u, "title"), c[5]),
          UpdateTextStyleOp(OwnId(u, "body"), c[6]) >>

\* transform_slide_to_requests(slide) of the generator of the request
TransformSlideToRequests(slide, u) ==
    TransformSlideToRequestsWith(slide, u, ReadsOf(theme))

-----------------------------------------------------------------------------
(* SlidesGenerator: the slide loop of create_presentation *)

\* "Convert old format if needed" and "Ensure title and content exist", for a
\* dict entry; raised is the IndexError of [...][0] on an empty main_points
EnsureSlide(slide) ==
    IF LEGACY_KEYS \subseteq slide.keys
    THEN [ raised |-> FALSE,
           slide |-> TC(IF slide.main_points # <<>> THEN slide.main_points[1]
                        ELSE UntitledSlide,
                        IF Len(slide.main_points) > 1 THEN Tail(slide.main_points)
                        ELSE <<>>) ]
    ELSE IF "title" \notin slide.keys /\ "main_points" \in slide.keys
              /\ slide.main_points = <<>>
    THEN [ raised |-> TRUE, slide |-> slide ]
    ELSE [ raised |-> FALSE,
           slide |-> [ slide EXCEPT
               !.keys = @ \cup TC_KEYS,
               !.title = IF "title" \in slide.keys THEN @
                         ELSE IF "main_points" \in slide.keys THEN slide.main_points[1]
                         ELSE UntitledSlide,
               !.content = IF "content" \in slide.keys THEN @
                           ELSE IF "main_points" \in slide.keys
                                   /\ Len(slide.main_points) > 1
                           THEN Tail(slide.main_points)
                           ELSE <<>> ] ]

BuildFailed == [ raised |-> TRUE, requests |-> <<>> ]

\* the loop "for i, slide in enumerate(slide_content)"; k is the 1-based
\* position, which also stands for the uuid4 of the k-th slide
RECURSIVE BuildAllRequests(_, _, _)
BuildAllRequests(slides, k, acc) ==
    IF k > Len(slides)
    THEN [ raised |-> FALSE, requests |-> acc ]
    ELSE IF ~slides[k].isDict THEN BuildFailed
    ELSE LET e == EnsureSlide(slides[k])
         IN  IF e.raised THEN BuildFailed
             ELSE BuildAllRequests(slides, k + 1,
                      acc \o TransformSlideToRequests(e.slide, k))

-----------------------------------------------------------------------------
(* The authoring service, the database and the caller *)

\* the identifier the service gives the one presentation of a request
DeckId == 1

\* the placeholder types a created page may turn out to expose
PageShapes ==
    { { "CENTERED_TITLE", "SUBTITLE" },
      { "TITLE", "SUBTITLE", "BODY", "FOOTER" } }

\* replies: what the service answered to a batchUpdate, one reply per request
Call(name, ok, requests, page, elements) ==
    [ call |-> name, ok |-> ok, requests |-> requests, page |-> page,
      elements |-> elements, replies |-> <<>> ]

CreateCall(ok) == Call("presentations.create", ok, <<>>, 0, {})
BatchUpdateCall(ok, requests) == Call("batchUpdate", ok, requests, 0, {})
PagesGetCall(ok, page, elements) == Call("pages.get", ok, <<>>, page, elements)

NoResponse == [ status |-> 0, success |-> "absent", error |-> "", deck |-> 0 ]

\* jsonify({'success': False, 'error': ...}) of /create-slides
CsFailure(msg) == [ status |-> 200, success |-> "false", error |-> msg, deck |-> 0 ]

\* jsonify({'success': True, 'presentation_url': .../d/{presentation_id}/edit})
CsSuccess(id) == [ status |-> 200, success |-> "true", error |-> "", deck |-> id ]

\* jsonify({'error': ...}), code of /api/presentations
ApError(code, msg) == [ status |-> code, success |-> "absent", error |-> msg, deck |-> 0 ]

\* jsonify({'presentation_id': ..., 'url': ...})
ApSuccess(id) == [ status |-> 200, success |-> "absent", error |-> "", deck |-> id ]

\* what str(e) is for an exception the service client raised
ServiceError == "service error"

\* no slide has been handed to transform_slide_content
NoSlide == [ type |-> "", title |-> <<>>, points |-> <<>> ]
NoTransform ==
    [ layout |-> "", create_request |-> Op("", NoId, <<>>, "", {}, NoColor),
      text_requests |-> <<>> ]

\* no placeholder replacement has been made
NoResolved == [ elements |-> {}, requests |-> <<>>, done |-> FALSE ]

\* the two requests before they arrive
Workers == { 1, 2 }
\* ref: what self.theme refers to; rgb_colors: the local dict of get_theme;
\* colors: the colors read from self.theme so far; raced: the other request
\* assigned to the shared entry between two of these reads
NoWorkers ==
    [ w \in Workers |->
        [ pc |-> "idle", theme_id |-> "", ref |-> "none", rgb_colors |-> NoColor,
          colors |-> <<>>, requests |-> <<>>, raced |-> FALSE ] ]

\* session without 'state' and without 'credentials'; state 0 is no state
NoState == 0
EmptySession == [ state |-> NoState, credentials |-> FALSE ]
\* arg: request.args.get('state'); served: callbacks answered so far;
\* user_before: who was logged in when the callback arrived; failed_at: the
\* step at which the callback raised
NoCallback ==
    [ pc |-> "idle", arg |-> NoState, email |-> "", served |-> 0,
      user_before |-> "", failed_at |-> "" ]
NoUser == ""

Init ==
    /\ route = "none"
    /\ pc = "idle"
    /\ title = <<>>
    /\ num_slides = 0
    /\ outline = NoOutline
    /\ slides_content = <<>>
    /\ presentation_id = 0
    /\ slide_ids = <<>>
    /\ read_index = 0
    /\ text_requests = <<>>
    /\ all_requests = <<>>
    /\ calls = <<>>
    /\ saved = <<>>
    /\ response = NoResponse
    /\ theme_id = ""
    /\ theme = NoTheme
    /\ PRESENTATION_THEMES = InitialThemes
    /\ lookups = <<>>
    /\ slide_in = NoSlide
    /\ transformed = NoTransform
    /\ resolved = NoResolved
    /\ workers = NoWorkers
    /\ session = EmptySession
    /\ oauth = NoCallback
    /\ current_user = NoUser
    /\ users = {}
    /\ logins = <<>>
    /\ issued = 0

\* the handler returns r
Respond(r) == response' = r /\ pc' = "done"

-----------------------------------------------------------------------------
(* POST /create-slides *)

\* title, topic, num_slides are read from the form; nothing is validated
ReceiveCreateSlides ==
    /\ pc = "idle"
    /\ \E t \in RequestTitles, n \in SlideCounts :
         /\ title' = t
         /\ num_slides' = n
    /\ route' = "create_slides"
    /\ pc' = "cs_create"
    /\ UNCHANGED << outline, slides_content, presentation_id, slide_ids, read_index,
                    text_requests, all_requests, calls, saved, response >>
    /\ UNCHANGED << themeVars, compilerVars, workerVars, oauthVars >>

\* service.presentations().create(body={'title': title}).execute()
CsCreatePresentation ==
    /\ pc = "cs_create"
    /\ \E ok \in BOOLEAN :
         /\ calls' = Append(calls, CreateCall(ok))
         /\ IF ok
            THEN /\ presentation_id' = DeckId
                 /\ pc' = "cs_generate"
                 /\ UNCHANGED response
            ELSE /\ Respond(CsFailure(ServiceError))
                 /\ UNCHANGED presentation_id
    /\ UNCHANGED << route, title, num_slides, outline, slides_content, slide_ids,
                    read_index, text_requests, all_requests, saved >>
    /\ UNCHANGED << themeVars, compilerVars, workerVars, oauthVars >>

\* the creation batch: one create_request per slide, nothing else
CreationRequests(slides) ==
    [ k \in 1..Len(slides) |-> TransformSlideContent(slides[k]).create_request ]

\* a handler that deletes the presentation it created when no outline came
CsGenerateCleaningUp ==
    /\ pc = "cs_generate"
    /\ \E o \in Outlines :
         LET r == GenerateSlideContentWithGpt(title, o)
         IN  /\ outline' = o
             /\ IF r.raised \/ r.slides = <<>>
                THEN /\ Respond(CsFailure("Failed to generate slide content"))
                     /\ calls' = Append(calls, Call("presentations.delete", TRUE, <<>>, 0, {}))
                     /\ UNCHANGED << slides_content, all_requests >>
                ELSE /\ slides_content' = r.slides
                     /\ all_requests' = CreationRequests(r.slides)
                     /\ pc' = "cs_phase1"
                     /\ UNCHANGED << response, calls >>
    /\ UNCHANGED << route, title, num_slides, presentation_id, slide_ids, read_index,
                    text_requests, saved >>
    /\ UNCHANGED << themeVars, compilerVars, workerVars, oauthVars >>

\* generate_slide_content_with_gpt(...), "if not slides_content", and the loop
\* that collects the create requests
CsGenerate ==
    /\ pc = "cs_generate"
    /\ \E o \in Outlines :
         LET r == GenerateSlideContentWithGpt(title, o)
         IN  /\ outline' = o
             /\ IF r.raised
                THEN /\ Respond(CsFailure("Failed to generate slide content"))
                     /\ UNCHANGED << slides_content, all_requests >>
                ELSE IF r.slides = <<>>
                THEN /\ Respond(CsFailure(
                            "Failed to generate slide content. Please try again."))
                     /\ slides_content' = r.slides
                     /\ UNCHANGED all_requests
                ELSE /\ slides_content' = r.slides
                     /\ all_requests' = CreationRequests(r.slides)
                     /\ pc' = "cs_phase1"
                     /\ UNCHANGED response
    /\ UNCHANGED << route, title, num_slides, presentation_id, slide_ids, read_index,
                    text_requests, calls, saved >>
    /\ UNCHANGED << themeVars, compilerVars, workerVars, oauthVars >>

\* ways the service may number the n pages it creates: along the order of the
\* requests, or against it
PageIdAssignments(n) ==
    { [ k \in 1..n |-> k ], [ k \in 1..n |-> n + 1 - k ] }

\* response['replies']: the k-th reply answers the k-th request and carries the
\* id of the page that request created
RepliesTo(requests, ids) ==
    [ k \in 1..Len(requests) |-> [ kind |-> requests[k].op, objectId |-> ids[k] ] ]

RECURSIVE SortedIds(_)
\* the ids of the createSlide replies in ascending order
SortedIds(replies) ==
    IF replies = <<>> THEN <<>>
    ELSE LET least == CHOOSE a \in 1..Len(replies) :
                         \A b \in 1..Len(replies) : replies[a].objectId <= replies[b].objectId
         IN  << replies[least].objectId >>
             \o SortedIds(SelectSeq(replies, LAMBDA r : r.objectId # replies[least].objectId))

\* "Get the created slide IDs": the objectId of every createSlide reply, in the
\* order of the replies
SlideIdsOf(replies) ==
    LET created == SelectSeq(replies, LAMBDA r : r.kind = "createSlide")
    IN  [ k \in 1..Len(created) |-> created[k].objectId ]

\* a handler that logs the failure of the creation batch and goes on
CsSubmitCreationSwallowing ==
    /\ pc = "cs_phase1"
    /\ \E ok \in BOOLEAN, ids \in PageIdAssignments(Len(all_requests)) :
         LET replies == RepliesTo(all_requests, ids)
         IN  /\ calls' = Append(calls, [ BatchUpdateCall(ok, all_requests)
                                         EXCEPT !.replies = replies ])
             /\ slide_ids' = SlideIdsOf(replies)
    /\ pc' = IF all_requests = <<>> THEN "cs_phase2" ELSE "cs_read"
    /\ UNCHANGED << route, title, num_slides, outline, slides_content, presentation_id,
                    read_index, text_requests, all_requests, saved, response >>
    /\ UNCHANGED << themeVars, compilerVars, workerVars, oauthVars >>

\* a handler that submits the creation batch a second time when the first
\* submission failed
CsSubmitCreationRetrying ==
    /\ pc = "cs_phase1"
    /\ \E ok \in BOOLEAN, ids \in PageIdAssignments(Len(all_requests)) :
         LET replies == IF ok THEN RepliesTo(all_requests, ids) ELSE <<>>
         IN
         /\ calls' = Append(calls, [ BatchUpdateCall(ok, all_requests)
                                     EXCEPT !.replies = replies ])
         /\ IF ok
            THEN /\ slide_ids' = SlideIdsOf(replies)
                 /\ pc' = IF all_requests = <<>> THEN "cs_phase2" ELSE "cs_read"
                 /\ UNCHANGED response
            ELSE IF \A j \in 1..Len(calls) : calls[j].call # "batchUpdate"
            THEN UNCHANGED << pc, slide_ids, response >>
            ELSE /\ Respond(CsFailure(ServiceError))
                 /\ UNCHANGED slide_ids
    /\ UNCHANGED << route, title, num_slides, outline, slides_content, presentation_id,
                    read_index, text_requests, all_requests, saved >>
    /\ UNCHANGED << themeVars, compilerVars, workerVars, oauthVars >>

\* "First create all slides" and "Get the created slide IDs"
CsSubmitCreation ==
    /\ pc = "cs_phase1"
    /\ \E ok \in BOOLEAN, ids \in PageIdAssignments(Len(all_requests)) :
         LET replies == IF ok THEN RepliesTo(all_requests, ids) ELSE <<>>
         IN
         /\ calls' = Append(calls, [ BatchUpdateCall(ok, all_requests)
                                     EXCEPT !.replies = replies ])
         /\ IF ok
            THEN /\ slide_ids' = SlideIdsOf(replies)
                 /\ pc' = IF all_requests = <<>> THEN "cs_phase2" ELSE "cs_read"
                 /\ UNCHANGED response
            ELSE /\ Respond(CsFailure(ServiceError))
                 /\ UNCHANGED slide_ids
    /\ UNCHANGED << route, title, num_slides, outline, slides_content, presentation_id,
                    read_index, text_requests, all_requests, saved >>
    /\ UNCHANGED << themeVars, compilerVars, workerVars, oauthVars >>

\* "Map placeholders to their IDs": only three types are mapped
MappedTypes == { "TITLE", "SUBTITLE", "BODY" }

PlaceholderIds(page, elements) ==
    [ ptype \in elements \cap MappedTypes |-> ElementId(page, ptype) ]

RECURSIVE ResolveTextRequestsKeeping(_, _)
\* the same replacement, leaving a request whose token the page does not
\* expose in the list as it is
ResolveTextRequestsKeeping(reqs, placeholder_ids) ==
    IF reqs = <<>> THEN <<>>
    ELSE LET r == Head(reqs)
         IN  << IF r.objectId.part \in DOMAIN placeholder_ids
                THEN [ r EXCEPT !.objectId = placeholder_ids[r.objectId.part] ]
                ELSE r >>
             \o ResolveTextRequestsKeeping(Tail(reqs), placeholder_ids)

RECURSIVE ResolveTextRequests(_, _)
\* "Replace placeholder IDs in text requests": a request whose token the page
\* does not expose is dropped
ResolveTextRequests(reqs, placeholder_ids) ==
    IF reqs = <<>> THEN <<>>
    ELSE LET r == Head(reqs)
         IN  (IF r.objectId.part \in DOMAIN placeholder_ids
              THEN << [ r EXCEPT !.objectId = placeholder_ids[r.objectId.part] ] >>
              ELSE <<>>)
             \o ResolveTextRequests(Tail(reqs), placeholder_ids)

\* where the handler stands after the read of index i out of n slide ids: the
\* loop "for i, slide_id in enumerate(slide_ids)" goes on until every id is read
AfterReadStopEarly(i, n) == "cs_phase2"

AfterRead(i, n) == IF i + 1 = n THEN "cs_phase2" ELSE "cs_read"

\* one turn of "for i, slide_id in enumerate(slide_ids)"
CsReadPage ==
    /\ pc = "cs_read"
    /\ read_index < Len(slide_ids)
    /\ LET slide_id == slide_ids[read_index + 1]
       IN  \/ \E elements \in PageShapes :
                /\ calls' = Append(calls, PagesGetCall(TRUE, slide_id, elements))
                /\ text_requests' = text_requests \o
                       ResolveTextRequests(
                           TransformSlideContent(slides_content[read_index + 1]).text_requests,
                           PlaceholderIds(slide_id, elements))
                /\ read_index' = read_index + 1
                /\ pc' = AfterRead(read_index, Len(slide_ids))
                /\ UNCHANGED response
           \/ /\ calls' = Append(calls, PagesGetCall(FALSE, slide_id, {}))
              /\ Respond(CsFailure(ServiceError))
              /\ UNCHANGED << text_requests, read_index >>
    /\ UNCHANGED << route, title, num_slides, outline, slides_content, presentation_id,
                    slide_ids, all_requests, saved >>
    /\ UNCHANGED << themeVars, compilerVars, workerVars, oauthVars >>

\* "Execute text insertion requests"
CsSubmitPopulation ==
    /\ pc = "cs_phase2"
    /\ text_requests # <<>>
    /\ \E ok \in BOOLEAN :
         /\ calls' = Append(calls, BatchUpdateCall(ok, text_requests))
         /\ IF ok
            THEN pc' = "cs_save" /\ UNCHANGED response
            ELSE Respond(CsFailure(ServiceError))
    /\ UNCHANGED << route, title, num_slides, outline, slides_content, presentation_id,
                    slide_ids, read_index, text_requests, all_requests, saved >>
    /\ UNCHANGED << themeVars, compilerVars, workerVars, oauthVars >>

\* "if text_requests:" is false: no second batch
CsSkipPopulation ==
    /\ pc = "cs_phase2"
    /\ text_requests = <<>>
    /\ pc' = "cs_save"
    /\ UNCHANGED << route, title, num_slides, outline, slides_content, presentation_id,
                    slide_ids, read_index, text_requests, all_requests, calls, saved,
                    response >>
    /\ UNCHANGED << themeVars, compilerVars, workerVars, oauthVars >>

\* a handler that reports the failure of the database save to the caller
CsSaveAndRespondStrict ==
    /\ pc = "cs_save"
    /\ \E committed \in BOOLEAN :
         IF committed
         THEN /\ saved' = Append(saved, [ title |-> title, num_slides |-> num_slides,
                                          status |-> "completed",
                                          google_presentation_id |-> presentation_id ])
              /\ Respond(CsSuccess(presentation_id))
         ELSE /\ Respond(CsFailure("database error"))
              /\ UNCHANGED saved
    /\ UNCHANGED << route, title, num_slides, outline, slides_content, presentation_id,
                    slide_ids, read_index, text_requests, all_requests, calls >>
    /\ UNCHANGED << themeVars, compilerVars, workerVars, oauthVars >>

\* "Save to database" (a failure is logged and ignored) and the success reply
CsSaveAndRespond ==
    /\ pc = "cs_save"
    /\ \E committed \in BOOLEAN :
         saved' = IF committed
                  THEN Append(saved, [ title |-> title, num_slides |-> num_slides,
                                       status |-> "completed",
                                       google_presentation_id |-> presentation_id ])
                  ELSE saved
    /\ Respond(CsSuccess(presentation_id))
    /\ UNCHANGED << route, title, num_slides, outline, slides_content, presentation_id,
                    slide_ids, read_index, text_requests, all_requests, calls >>
    /\ UNCHANGED << themeVars, compilerVars, workerVars, oauthVars >>

-----------------------------------------------------------------------------
(* POST /api/presentations *)

\* title, num_slides and theme_id are read from the JSON body; "if not title"
\* and "if not credentials" return at once; SlidesGenerator(credentials,
\* theme_id) resolves the theme, and an exception of it would be answered by
\* the handler's "except Exception" with 500
ReceiveApiPresentations ==
    /\ pc = "idle"
    /\ route' = "api_presentations"
    /\ \E t \in RequestTitles, n \in SlideCounts, tid \in ThemeIds,
          credentials \in BOOLEAN :
         LET generator == SlidesGeneratorInit(PRESENTATION_THEMES, tid)
         IN  /\ title' = t
             /\ num_slides' = n
             /\ theme_id' = tid
             /\ IF ~Truthy(t)
                THEN /\ Respond(ApError(400, "Title is required"))
                     /\ UNCHANGED << theme, PRESENTATION_THEMES >>
                ELSE IF ~credentials
                THEN /\ Respond(ApError(401, "Not authenticated"))
                     /\ UNCHANGED << theme, PRESENTATION_THEMES >>
                ELSE IF generator.raised
                THEN /\ Respond(ApError(500, "Unknown theme"))
                     /\ PRESENTATION_THEMES' = generator.table
                     /\ UNCHANGED theme
                ELSE /\ theme' = generator.theme
                     /\ PRESENTATION_THEMES' = generator.table
                     /\ pc' = "ap_create"
                     /\ UNCHANGED response
    /\ UNCHANGED << outline, slides_content, presentation_id, slide_ids, read_index,
                    text_requests, all_requests, calls, saved >>
    /\ UNCHANGED << lookups, compilerVars, workerVars, oauthVars >>

\* SlidesGenerator.create_presentation: presentations().create and the check of
\* the presentationId; every exception ends as ValueError, answered with 500
ApCreatePresentation ==
    /\ pc = "ap_create"
    /\ \E outcome \in { "ok", "no id", "raised" } :
         /\ calls' = Append(calls, CreateCall(outcome # "raised"))
         /\ IF outcome = "ok"
            THEN /\ presentation_id' = DeckId
                 /\ pc' = "ap_generate"
                 /\ UNCHANGED response
            ELSE /\ Respond(ApError(500, "Failed to create presentation"))
                 /\ UNCHANGED presentation_id
    /\ UNCHANGED << route, title, num_slides, outline, slides_content, slide_ids,
                    read_index, text_requests, all_requests, saved >>
    /\ UNCHANGED << themeVars, compilerVars, workerVars, oauthVars >>

\* generate_content, "if not slide_content" and the loop over the slides
ApGenerate ==
    /\ pc = "ap_generate"
    /\ \E o \in Outlines :
         LET parsed == GenerateContent(o)
             built == BuildAllRequests(parsed.slides, 1, <<>>)
         IN  /\ outline' = o
             /\ IF parsed.none \/ parsed.slides = <<>> \/ built.raised
                THEN /\ Respond(ApError(500, "Failed to create presentation"))
                     /\ UNCHANGED << slides_content, all_requests >>
                ELSE /\ slides_content' = parsed.slides
                     /\ all_requests' = built.requests
                     /\ pc' = "ap_batch"
                     /\ UNCHANGED response
    /\ UNCHANGED << route, title, num_slides, presentation_id, slide_ids, read_index,
                    text_requests, calls, saved >>
    /\ UNCHANGED << themeVars, compilerVars, workerVars, oauthVars >>

\* "Execute the requests" and the handler's reply
ApSubmitBatch ==
    /\ pc = "ap_batch"
    /\ all_requests # <<>>
    /\ \E ok \in BOOLEAN :
         /\ calls' = Append(calls, BatchUpdateCall(ok, all_requests))
         /\ IF ok
            THEN Respond(ApSuccess(presentation_id))
            ELSE Respond(ApError(500, "Failed to create presentation"))
    /\ UNCHANGED << route, title, num_slides, outline, slides_content, presentation_id,
                    slide_ids, read_index, text_requests, all_requests, saved >>
    /\ UNCHANGED << themeVars, compilerVars, workerVars, oauthVars >>

-----------------------------------------------------------------------------

Next ==
    \/ ReceiveCreateSlides
    \/ CsCreatePresentation
    \/ CsGenerate
    \/ CsSubmitCreation
    \/ CsReadPage
    \/ CsSubmitPopulation
    \/ CsSkipPopulation
    \/ CsSaveAndRespond
    \/ ReceiveApiPresentations
    \/ ApCreatePresentation
    \/ ApGenerate
    \/ ApSubmitBatch

Spec == Init /\ [][Next]_vars

-----------------------------------------------------------------------------
(* themes.py called on its own: lookups on the process-wide table *)

MaxLookups == 3

Lookup(name, id, raised, result, choices) ==
    [ call |-> name, theme_id |-> id, raised |-> raised, theme |-> result,
      choices |-> choices ]

\* get_theme(theme_id)
CallGetTheme ==
    /\ Len(lookups) < MaxLookups
    /\ \E tid \in ThemeIds :
         LET r == GetTheme(PRESENTATION_THEMES, tid)
         IN  /\ PRESENTATION_THEMES' = r.table
             /\ lookups' = Append(lookups, Lookup("get_theme", tid, r.raised, r.theme, {}))
    /\ UNCHANGED << route, pc, title, num_slides, outline, slides_content,
                    presentation_id, slide_ids, read_index, text_requests, all_requests,
                    calls, saved, response, theme_id, theme, compilerVars, workerVars, oauthVars >>

\* get_theme_choices()
CallGetThemeChoices ==
    /\ Len(lookups) < MaxLookups
    /\ lookups' = Append(lookups, Lookup("get_theme_choices", "", FALSE, NoTheme,
                                         GetThemeChoices(PRESENTATION_THEMES)))
    /\ UNCHANGED << route, pc, title, num_slides, outline, slides_content,
                    presentation_id, slide_ids, read_index, text_requests, all_requests,
                    calls, saved, response, theme_id, theme, PRESENTATION_THEMES,
                    compilerVars, workerVars, oauthVars >>

\* SlidesGenerator(credentials, theme_id)
ConstructSlidesGenerator ==
    /\ Len(lookups) < MaxLookups
    /\ \E tid \in ThemeIds :
         LET r == SlidesGeneratorInit(PRESENTATION_THEMES, tid)
         IN  /\ theme_id' = tid
             /\ theme' = r.theme
             /\ PRESENTATION_THEMES' = r.table
             /\ lookups' = Append(lookups,
                                  Lookup("SlidesGenerator", tid, r.raised, r.theme, {}))
    /\ UNCHANGED << route, pc, title, num_slides, outline, slides_content,
                    presentation_id, slide_ids, read_index, text_requests, all_requests,
                    calls, saved, response, compilerVars, workerVars, oauthVars >>

ThemeNext ==
    \/ CallGetTheme
    \/ CallGetThemeChoices
    \/ ConstructSlidesGenerator

ThemeSpec == Init /\ [][ThemeNext]_vars

-----------------------------------------------------------------------------
(* transform_slide_content called on its own, on typed slides *)

\* the type labels transform_slide_content knows, and two it does not
SlideTypes ==
    { "TITLE", "AGENDA", "SECTION", "SUMMARY", "CLOSING", "CONTENT", "EXAMPLES" }

TypedSlides ==
    { [ type |-> ty, title |-> t, points |-> p ] :
        ty \in SlideTypes, t \in { <<>>, tA, tPad },
        p \in { <<>>, << pX >>, << pX, pY >> } }

fX == << "f" >>

\* the same slides carrying the keys the footer requests are built from
FooterSlides ==
    { s @@ [ date |-> fX, visual_guidance |-> fX, contact |-> fX ] :
        s \in { x \in TypedSlides : x.points = <<>> } }

TransformInit ==
    /\ route = "none"
    /\ pc = "idle"
    /\ title = <<>>
    /\ num_slides = 0
    /\ outline = NoOutline
    /\ slides_content = <<>>
    /\ presentation_id = 0
    /\ slide_ids = <<>>
    /\ read_index = 0
    /\ text_requests = <<>>
    /\ all_requests = <<>>
    /\ calls = <<>>
    /\ saved = <<>>
    /\ response = NoResponse
    /\ theme_id = ""
    /\ theme = NoTheme
    /\ PRESENTATION_THEMES = InitialThemes
    /\ lookups = <<>>
    /\ slide_in \in TypedSlides \cup FooterSlides
    /\ transformed = NoTransform
    /\ resolved = NoResolved
    /\ workers = NoWorkers
    /\ session = EmptySession
    /\ oauth = NoCallback
    /\ current_user = NoUser
    /\ users = {}
    /\ logins = <<>>
    /\ issued = 0

\* layout, create_request, text_requests = transform_slide_content(slide)
CallTransformSlideContent ==
    /\ transformed = NoTransform
    /\ transformed' = TransformSlideContent(slide_in)
    /\ UNCHANGED << route, pc, title, num_slides, outline, slides_content,
                    presentation_id, slide_ids, read_index, text_requests, all_requests,
                    calls, saved, response, themeVars, slide_in, resolved,
                    workerVars, oauthVars >>

\* the identifier of the page the slide was created as
PageOfSlide == 1

\* "Map placeholders to their IDs" and "Replace placeholder IDs in text
\* requests" of create_slides, for the page the service shows
ReplacePlaceholderIds ==
    /\ transformed # NoTransform
    /\ ~resolved.done
    /\ \E elements \in PageShapes :
         resolved' = [ elements |-> elements,
                       requests |-> ResolveTextRequests(transformed.text_requests,
                                        PlaceholderIds(PageOfSlide, elements)),
                       done |-> TRUE ]
    /\ UNCHANGED << route, pc, title, num_slides, outline, slides_content,
                    presentation_id, slide_ids, read_index, text_requests, all_requests,
                    calls, saved, response, themeVars, slide_in, transformed,
                    workerVars, oauthVars >>

TransformNext ==
    \/ CallTransformSlideContent
    \/ ReplacePlaceholderIds

TransformSpec == TransformInit /\ [][TransformNext]_vars

-----------------------------------------------------------------------------
(* Two requests served at the same time: SlidesGenerator(credentials, theme_id)
   and the compilation of one slide, statement by statement *)

\* the slide each of the two requests compiles
WorkerSlide == TC(tA, << pX >>)

\* the request arrives with its theme identifier
WorkerArrive(w) ==
    /\ workers[w].pc = "idle"
    /\ \E tid \in ThemeIds :
         workers' = [ workers EXCEPT ![w].pc = "lookup", ![w].theme_id = tid ]
    /\ UNCHANGED << pipelineVars, themeVars, compilerVars, oauthVars >>

\* theme = PRESENTATION_THEMES.get(theme_id); "if not theme: raise", which
\* __init__ answers with its own default theme
WorkerLookup(w) ==
    /\ workers[w].pc = "lookup"
    /\ workers' = IF workers[w].theme_id \in DOMAIN PRESENTATION_THEMES
                  THEN [ workers EXCEPT ![w].pc = "convert", ![w].ref = "shared" ]
                  ELSE [ workers EXCEPT ![w].pc = "style", ![w].ref = "default" ]
    /\ UNCHANGED << pipelineVars, themeVars, compilerVars, oauthVars >>

\* the loop filling the local rgb_colors from theme['colors']
WorkerConvert(w) ==
    /\ workers[w].pc = "convert"
    /\ workers' = [ workers EXCEPT
           ![w].pc = "publish",
           ![w].rgb_colors = RgbColorsOf(PRESENTATION_THEMES[workers[w].theme_id]) ]
    /\ UNCHANGED << pipelineVars, themeVars, compilerVars, oauthVars >>

\* theme['rgb_colors'] = rgb_colors, on the entry both requests share, and the
\* return into __init__
WorkerPublish(w) ==
    /\ workers[w].pc = "publish"
    /\ PRESENTATION_THEMES' =
           [ PRESENTATION_THEMES EXCEPT
               ![workers[w].theme_id] = Assign(@, "rgb_colors", workers[w].rgb_colors) ]
    /\ workers' =
           [ v \in Workers |->
               IF v = w THEN [ workers[v] EXCEPT !.pc = "style" ]
               ELSE [ workers[v] EXCEPT
                        !.raced = @ \/ (/\ workers[v].pc = "style"
                                        /\ workers[v].ref = "shared"
                                        /\ workers[v].theme_id = workers[w].theme_id
                                        /\ workers[v].colors # <<>>) ] ]
    /\ UNCHANGED << pipelineVars, theme_id, theme, lookups, compilerVars, oauthVars >>

\* what self.theme is for request w at this moment
ThemeOfWorker(w) ==
    IF workers[w].ref = "shared" THEN PRESENTATION_THEMES[workers[w].theme_id]
    ELSE DefaultTheme

\* one read of self.theme['rgb_colors'][slot] in transform_slide_to_requests;
\* the last one completes the slide's requests
WorkerReadColor(w) ==
    /\ workers[w].pc = "style"
    /\ LET k == Len(workers[w].colors) + 1
           read == Append(workers[w].colors, ThemeOfWorker(w).rgb_colors[StyleSlots[k]])
       IN  workers' =
               IF k < Len(StyleSlots)
               THEN [ workers EXCEPT ![w].colors = read ]
               ELSE [ workers EXCEPT
                        ![w].colors = read,
                        ![w].pc = "done",
                        ![w].requests = TransformSlideToRequestsWith(WorkerSlide, w, read) ]
    /\ UNCHANGED << pipelineVars, themeVars, compilerVars, oauthVars >>

ConcurrentNext ==
    \E w \in Workers :
        \/ WorkerArrive(w)
        \/ WorkerLookup(w)
        \/ WorkerConvert(w)
        \/ WorkerPublish(w)
        \/ WorkerReadColor(w)

ConcurrentSpec == Init /\ [][ConcurrentNext]_vars

-----------------------------------------------------------------------------
(* /login, /logout and /oauth2callback *)

\* how many state values login() hands out, and how many callbacks arrive
MaxStates == 2
MaxCallbacks == 2

\* the addresses the user-info endpoint may report
Emails == { "a@x", "b@x" }

\* login(): an authenticated user is redirected at once; otherwise
\* session['state'] = state, with the fresh state of flow.authorization_url
Login ==
    /\ oauth.pc = "idle"
    /\ current_user = NoUser
    /\ issued < MaxStates
    /\ issued' = issued + 1
    /\ session' = [ session EXCEPT !.state = issued + 1 ]
    /\ UNCHANGED << oauth, current_user, users, logins >>
    /\ UNCHANGED << pipelineVars, themeVars, compilerVars, workerVars >>

\* logout(): logout_user()
Logout ==
    /\ oauth.pc = "idle"
    /\ current_user # NoUser
    /\ current_user' = NoUser
    /\ UNCHANGED << session, oauth, users, logins, issued >>
    /\ UNCHANGED << pipelineVars, themeVars, compilerVars, workerVars >>

\* a request to /oauth2callback arrives, with any state parameter or none
CallbackArrive ==
    /\ oauth.pc = "idle"
    /\ oauth.served < MaxCallbacks
    /\ \E a \in 0..MaxStates :
         oauth' = [ oauth EXCEPT !.pc = "check_state", !.arg = a, !.email = "",
                                 !.user_before = current_user, !.failed_at = "" ]
    /\ UNCHANGED << session, current_user, users, logins, issued >>
    /\ UNCHANGED << pipelineVars, themeVars, compilerVars, workerVars >>

\* the callback raises at step: control goes to "except Exception"
RaiseAt(step) == oauth' = [ oauth EXCEPT !.pc = "except", !.failed_at = step ]

\* state = session.get('state'); "if not state"; "if state != request.args.get('state')"
CallbackCheckState ==
    /\ oauth.pc = "check_state"
    /\ IF session.state = NoState THEN RaiseAt("missing state")
       ELSE IF session.state # oauth.arg THEN RaiseAt("invalid state")
       ELSE oauth' = [ oauth EXCEPT !.pc = "fetch_token" ]
    /\ UNCHANGED << session, current_user, users, logins, issued >>
    /\ UNCHANGED << pipelineVars, themeVars, compilerVars, workerVars >>

\* flow.fetch_token(...) and session['credentials'] = {...}
CallbackFetchToken ==
    /\ oauth.pc = "fetch_token"
    /\ \E ok \in BOOLEAN :
         IF ok
         THEN /\ session' = [ session EXCEPT !.credentials = TRUE ]
              /\ oauth' = [ oauth EXCEPT !.pc = "userinfo" ]
         ELSE /\ RaiseAt("fetch_token")
              /\ UNCHANGED session
    /\ UNCHANGED << current_user, users, logins, issued >>
    /\ UNCHANGED << pipelineVars, themeVars, compilerVars, workerVars >>

\* service.userinfo().get().execute(), email = user_info.get('email'),
\* "if not email"
CallbackUserInfo ==
    /\ oauth.pc = "userinfo"
    /\ \/ RaiseAt("userinfo")
       \/ RaiseAt("no email")
       \/ \E e \in Emails : oauth' = [ oauth EXCEPT !.pc = "user_row", !.email = e ]
    /\ UNCHANGED << session, current_user, users, logins, issued >>
    /\ UNCHANGED << pipelineVars, themeVars, compilerVars, workerVars >>

\* "Create or get user": the query, and for a new address the insert and commit
CallbackUserRow ==
    /\ oauth.pc = "user_row"
    /\ \/ /\ RaiseAt("database")
          /\ UNCHANGED users
       \/ /\ users' = users \cup { oauth.email }
          /\ oauth' = [ oauth EXCEPT !.pc = "login_user" ]
    /\ UNCHANGED << session, current_user, logins, issued >>
    /\ UNCHANGED << pipelineVars, themeVars, compilerVars, workerVars >>

\* a callback that leaves the state in the session after the login
SessionKept(sess) == sess

\* session.pop('state', None) after login_user
SessionAfterLogin(sess) == [ sess EXCEPT !.state = NoState ]

\* an error path that clears the state only
SessionAfterStatePop(sess) == [ sess EXCEPT !.state = NoState ]

\* session.pop('state', None) and session.pop('credentials', None) on error
SessionAfterFailure(sess) == [ sess EXCEPT !.state = NoState, !.credentials = FALSE ]

\* login_user(user), "Clear state from session"
CallbackLoginUser ==
    /\ oauth.pc = "login_user"
    /\ current_user' = oauth.email
    /\ logins' = Append(logins, [ state |-> session.state, arg |-> oauth.arg,
                                  email |-> oauth.email ])
    /\ session' = SessionAfterLogin(session)
    /\ oauth' = [ oauth EXCEPT !.pc = "succeeded" ]
    /\ UNCHANGED << users, issued >>
    /\ UNCHANGED << pipelineVars, themeVars, compilerVars, workerVars >>

\* "except Exception": both keys are popped from the session
CallbackExcept ==
    /\ oauth.pc = "except"
    /\ session' = SessionAfterFailure(session)
    /\ oauth' = [ oauth EXCEPT !.pc = "failed" ]
    /\ UNCHANGED << current_user, users, logins, issued >>
    /\ UNCHANGED << pipelineVars, themeVars, compilerVars, workerVars >>

\* return redirect(...): the callback has been answered
CallbackReturn ==
    /\ oauth.pc \in { "succeeded", "failed" }
    /\ oauth' = [ oauth EXCEPT !.pc = "idle", !.served = @ + 1 ]
    /\ UNCHANGED << session, current_user, users, logins, issued >>
    /\ UNCHANGED << pipelineVars, themeVars, compilerVars, workerVars >>

OAuthNext ==
    \/ Login
    \/ Logout
    \/ CallbackArrive
    \/ CallbackCheckState
    \/ CallbackFetchToken
    \/ CallbackUserInfo
    \/ CallbackUserRow
    \/ CallbackLoginUser
    \/ CallbackExcept
    \/ CallbackReturn

OAuthSpec == Init /\ [][OAuthNext]_vars

-----------------------------------------------------------------------------
(* Properties *)

IsBatch(j) == calls[j].call = "batchUpdate"
BatchIndexes == { j \in 1..Len(calls) : IsBatch(j) }
\* the first batchUpdate of the request, when there is one
FirstBatch == CHOOSE j \in BatchIndexes : \A i \in BatchIndexes : j <= i
OpsOfKind(requests, kind) == { k \in 1..Len(requests) : requests[k].op = kind }
Succeeded ==
    pc = "done" /\ response.status = 200 /\ response.success # "false"
Generated == outline # NoOutline
\* the bullets an outline entry carries, in either shape
EntryBullets(e) ==
    IF LEGACY_KEYS \subseteq e.keys
    THEN (IF e.main_points = <<>> THEN <<>> ELSE Tail(e.main_points))
    ELSE e.content

\* C1: in the operations compiled for a slide, no updateTextStyle of a region's
\* object id comes before the insertText into the same object id.
C1_StyleNeverPrecedesText ==
    route = "api_presentations" =>
        \A i \in OpsOfKind(all_requests, "updateTextStyle") :
            \A j \in OpsOfKind(all_requests, "insertText") :
                all_requests[i].objectId = all_requests[j].objectId => j < i

\* C2: the first batchUpdate of a compilation holds exactly one createSlide per
\* normalized slide, in slide order, and no insertText.
C2_FirstBatchCreatesOnly ==
    BatchIndexes # {} =>
        LET first == calls[FirstBatch].requests
        IN  /\ Len(first) = Len(slides_content)
            /\ \A k \in 1..Len(first) : first[k].op = "createSlide"
            /\ OpsOfKind(first, "insertText") = {}

\* C3: a compilation that ends in success has submitted exactly two
\* batchUpdate calls, the creation batch and then the population batch.
C3_TwoBatchesOnSuccess ==
    (Succeeded /\ presentation_id # 0) => Cardinality(BatchIndexes) = 2

\* C4: in /create-slides a batch that follows the creation batch is submitted
\* only after the creation batch succeeded and every created page was read, and
\* every insertText submitted targets an element of a page read before it.
C4_PopulationAfterReads ==
    route = "create_slides" =>
        /\ \A j \in BatchIndexes :
              j # FirstBatch =>
                  /\ calls[FirstBatch].ok
                  /\ Len(slide_ids) = Len(calls[FirstBatch].requests)
                  /\ \A k \in 1..Len(slide_ids) :
                        \E r \in (FirstBatch + 1)..(j - 1) :
                            /\ calls[r].call = "pages.get"
                            /\ calls[r].ok
                            /\ calls[r].page = slide_ids[k]
        /\ \A j \in BatchIndexes :
              \A k \in OpsOfKind(calls[j].requests, "insertText") :
                  /\ j # FirstBatch
                  /\ \E r \in 1..(j - 1) :
                        /\ calls[r].call = "pages.get"
                        /\ calls[r].ok
                        /\ calls[r].page = calls[j].requests[k].objectId.page
                        /\ calls[j].requests[k].objectId.part \in calls[r].elements

\* a population batch was submitted for a deck of two slides
C4_Witness ==
    /\ route = "create_slides"
    /\ Cardinality(BatchIndexes) = 2
    /\ Len(slide_ids) = 2
    /\ Len(text_requests) = 2

\* the population batch failed after the creation batch had succeeded
PopulationFailed ==
    /\ route = "create_slides"
    /\ pc = "done"
    /\ Cardinality(BatchIndexes) = 2
    /\ \E j \in BatchIndexes : j # FirstBatch /\ ~calls[j].ok

\* C5: when the population batch fails after the creation batch succeeded, the
\* caller gets an outcome that is not the total-failure outcome and that carries
\* the deck identifier.
C5_PartialSuccessReported ==
    PopulationFailed => (response.success # "false" /\ response.deck = presentation_id)

\* C6: a malformed outline is normalized, without an error, to exactly two
\* slides, the first carrying the requested title.
C6_MalformedYieldsFallbackDeck ==
    (Generated /\ IsMalformed(outline)) =>
        /\ Len(slides_content) = 2
        /\ slides_content[1].title = title
        /\ response.success # "false"
        /\ response.status # 500

\* C7: for a well-formed outline, in either input shape, normalized slide 0
\* carries exactly the requested title.
C7_FirstSlideHasRequestedTitle ==
    (route = "create_slides" /\ IsWellFormed(outline) /\ outline.entries # <<>>) =>
        slides_content[1].title = title

\* C8: a well-formed outline of N entries is normalized, whatever slide count
\* was requested, into exactly N slides in the outline's order, and the creation
\* batch holds exactly N createSlide operations.
C8_OneSlidePerEntry ==
    (route = "create_slides" /\ IsWellFormed(outline)) =>
        /\ Len(slides_content) = Len(outline.entries)
        /\ \A k \in 1..Len(slides_content) :
              /\ slides_content[k].id = k
              /\ slides_content[k].content = StripAll(EntryBullets(outline.entries[k]))
        /\ BatchIndexes # {} =>
              /\ Len(calls[FirstBatch].requests) = Len(outline.entries)
              /\ \A k \in 1..Len(outline.entries) :
                    calls[FirstBatch].requests[k].op = "createSlide"

\* an outline longer than the requested count went through the creation batch
C8_Witness ==
    /\ route = "create_slides"
    /\ IsWellFormed(outline)
    /\ Len(outline.entries) = 2
    /\ num_slides = 1
    /\ BatchIndexes # {}
    /\ slides_content[1].content # slides_content[2].content

\* the {title, content} entry that says what a legacy entry says
AsTitleContent(e) ==
    TC(IF e.main_points = <<>> THEN <<>> ELSE Head(e.main_points), EntryBullets(e))

\* C9: a legacy entry at position i >= 1 is normalized to the slide whose title
\* is its first main point and whose bullets are the remaining main points, the
\* same slide as the {title, content} entry with that title and those bullets
\* gives, also when main_points is empty or an earlier entry was legacy.
C9_LegacyFoldsLikeTitleContent ==
    (route = "create_slides" /\ IsWellFormed(outline)) =>
        \A k \in 2..Len(outline.entries) :
            LET e == outline.entries[k]
                same == GenerateSlideContentWithGpt(title,
                            [ outline EXCEPT !.entries[k] = AsTitleContent(e) ])
            IN  LEGACY_KEYS \subseteq e.keys =>
                    /\ slides_content[k] = same.slides[k]
                    /\ slides_content[k].content = StripAll(EntryBullets(e))
                    /\ (e.main_points # <<>> /\ Strip(Head(e.main_points)) # <<>>)
                           => slides_content[k].title = Strip(Head(e.main_points))

\* the slides as the compiler sees them: SlidesGenerator folds each parsed
\* entry into {title, content} inside its loop
NormalizedSlides ==
    IF route = "api_presentations"
    THEN [ k \in 1..Len(slides_content) |-> EnsureSlide(slides_content[k]).slide ]
    ELSE slides_content

\* C10: every slide that normalization returns has a non-empty title.
C10_TitlesNonEmpty ==
    \A k \in 1..Len(NormalizedSlides) : Truthy(NormalizedSlides[k].title)

\* the successful reads of page p made before call j
ReadsBefore(j, p) ==
    { r \in 1..(j - 1) : calls[r].call = "pages.get" /\ calls[r].ok /\ calls[r].page = p }

\* C11: in /create-slides, for every normalized slide with bullets whose created
\* page exposes a Body placeholder, the population batch holds an insertText
\* into that placeholder carrying the slide's bullets, each with the bullet
\* glyph, joined by newlines.
C11_BulletsReachBody ==
    route = "create_slides" =>
        \A j \in BatchIndexes :
            j # FirstBatch =>
                \A k \in 1..Len(slide_ids) :
                    (/\ slides_content[k].content # <<>>
                     /\ \E r \in ReadsBefore(j, slide_ids[k]) : "BODY" \in calls[r].elements)
                    => \E q \in 1..Len(calls[j].requests) :
                           calls[j].requests[q] =
                               InsertTextOp(ElementId(slide_ids[k], "BODY"),
                                            BulletBlock(slides_content[k].content))

\* C12: every operation of a population batch of /create-slides targets an
\* object id the service returned in the read of a page created by the creation
\* batch; no symbolic token is submitted as a target.
C12_PopulationTargetsServiceIds ==
    route = "create_slides" =>
        \A j \in BatchIndexes :
            j # FirstBatch =>
                \A q \in 1..Len(calls[j].requests) :
                    LET oid == calls[j].requests[q].objectId
                    IN  /\ oid.ns = "service"
                        /\ oid # Token(oid.part)
                        /\ \E k \in 1..Len(slide_ids) : slide_ids[k] = oid.page
                        /\ \E r \in ReadsBefore(j, oid.page) : oid.part \in calls[r].elements

\* a population batch went out although one page exposed no TITLE placeholder,
\* so that one slide's title request had no target
C12_Witness ==
    /\ route = "create_slides"
    /\ Cardinality(BatchIndexes) = 2
    /\ Len(slide_ids) = 2
    /\ Len(text_requests) = 1
    /\ \E r \in 1..Len(calls) :
          calls[r].call = "pages.get" /\ calls[r].ok /\ "TITLE" \notin calls[r].elements

\* the neutral background, RGB (1, 1, 1)
White == [ red |-> ColorUnit, green |-> ColorUnit, blue |-> ColorUnit ]

\* an authenticated request to /api/presentations with a title and a theme
\* identifier the preset table does not hold
UnknownThemeRequested ==
    /\ route = "api_presentations"
    /\ theme_id \notin DOMAIN InitialThemes
    /\ Truthy(title)
    /\ response.status \notin { 400, 401 }

\* C13: a theme identifier that is not in the preset table does not abort the
\* request: the generator is constructed with the default theme, whose
\* background is RGB (1, 1, 1), and the compilation goes on to the service.
C13_UnknownThemeFallsBack ==
    UnknownThemeRequested =>
        /\ theme = DefaultTheme
        /\ theme.rgb_colors.background = White
        /\ pc = "done" => calls # <<>>

\* a deck was compiled and submitted under an unknown theme identifier
C13_Witness ==
    /\ UnknownThemeRequested
    /\ pc = "done"
    /\ response = ApSuccess(presentation_id)
    /\ Cardinality(BatchIndexes) = 1

\* C14: no sequence of get_theme and get_theme_choices calls changes
\* PRESENTATION_THEMES: every preset entry keeps its keys and values.
C14_ThemeTableUnchanged ==
    PRESENTATION_THEMES = InitialThemes

\* C15: two resolutions of the same theme identifier give identical themes,
\* whatever was resolved in between.
C15_ResolutionIdempotent ==
    \A i \in 1..Len(lookups) :
        \A j \in (i + 1)..Len(lookups) :
            (/\ lookups[i].call = lookups[j].call
             /\ lookups[i].call # "get_theme_choices"
             /\ lookups[i].theme_id = lookups[j].theme_id)
            => /\ lookups[i].raised = lookups[j].raised
               /\ lookups[i].theme = lookups[j].theme

\* one preset was resolved twice with another resolution in between
C15_Witness ==
    /\ Len(lookups) = 3
    /\ lookups[1].call = "get_theme"
    /\ lookups[3].call = "get_theme"
    /\ lookups[1].theme_id = "dark"
    /\ lookups[3].theme_id = "dark"
    /\ lookups[2].theme_id = "corporate"
    /\ "rgb_colors" \in DOMAIN lookups[3].theme

\* the createSlide operations of a batch, in order
CreateSlidesOf(requests) == SelectSeq(requests, LAMBDA r : r.op = "createSlide")

\* C16: the i-th createSlide of the creation batch (i = 0..N-1) carries
\* insertion index i.
C16_InsertionIndexesInOrder ==
    BatchIndexes # {} =>
        LET creates == CreateSlidesOf(calls[FirstBatch].requests)
        IN  \A k \in 1..Len(creates) : creates[k].insertionIndex = k - 1

\* the calls of one kind made so far
CallsNamed(name) == { j \in 1..Len(calls) : calls[j].call = name }

\* the creation batch of /create-slides was submitted and failed
CreationFailed ==
    /\ route = "create_slides"
    /\ BatchIndexes # {}
    /\ ~calls[FirstBatch].ok

\* C17: when the creation batch fails, /create-slides reports failure, and no
\* page read, no population batch and no saved Presentation follows.
C17_CreationFailureIsTotal ==
    CreationFailed =>
        /\ pc = "done"
        /\ response = CsFailure(ServiceError)
        /\ Len(calls) = FirstBatch
        /\ CallsNamed("pages.get") = {}
        /\ BatchIndexes = { FirstBatch }
        /\ saved = <<>>

\* the creation batch of a two-slide deck failed
C17_Witness ==
    /\ CreationFailed
    /\ pc = "done"
    /\ Len(calls[FirstBatch].requests) = 2

RECURSIVE CreateSlidesSent(_)
\* the createSlide operations in the batches submitted up to call j
CreateSlidesSent(j) ==
    IF j = 0 THEN 0
    ELSE CreateSlidesSent(j - 1)
         + (IF IsBatch(j) THEN Len(CreateSlidesOf(calls[j].requests)) ELSE 0)

\* C18: within one request the presentation is created at most once, the
\* creation batch and the population batch are each submitted at most once, and
\* no more createSlide operations are sent than there are normalized slides.
C18_NothingSubmittedTwice ==
    /\ Cardinality(CallsNamed("presentations.create")) <= 1
    /\ Cardinality({ j \in BatchIndexes : OpsOfKind(calls[j].requests, "createSlide") # {} }) <= 1
    /\ Cardinality({ j \in BatchIndexes : OpsOfKind(calls[j].requests, "createSlide") = {} }) <= 1
    /\ CreateSlidesSent(Len(calls)) <= Len(slides_content)

\* a request ended in failure after a batch of createSlide operations was sent
C18_Witness ==
    /\ pc = "done"
    /\ \E j \in BatchIndexes : ~calls[j].ok /\ OpsOfKind(calls[j].requests, "createSlide") # {}
    /\ CreateSlidesSent(Len(calls)) = 2

\* C19: a request whose title is empty or missing is refused at once, at either
\* entry point, before the service or the outline generator is called.
C19_EmptyTitleRefusedAtOnce ==
    (route # "none" /\ ~Truthy(title)) =>
        /\ pc = "done"
        /\ calls = <<>>
        /\ ~Generated
        /\ response.success # "true"

\* the type labels transform_slide_content has a branch for
RecognizedTypes == DOMAIN layout_mapping

\* C20: a slide whose type label is not recognized is compiled as the Content
\* (SECTION) slide with the same title and points is: layout TITLE_AND_BODY and
\* the same title and body text operations.
C20_UnknownTypeCompilesAsContent ==
    (transformed # NoTransform /\ slide_in.type \notin RecognizedTypes) =>
        LET content == TransformSlideContent([ slide_in EXCEPT !.type = "SECTION" ])
        IN  /\ transformed.layout = "TITLE_AND_BODY"
            /\ transformed.layout = content.layout
            /\ transformed.text_requests = content.text_requests

\* the four regions a text request may name
Regions == { "TITLE", "SUBTITLE", "BODY", "FOOTER" }

\* C21: the placeholder replacement of /create-slides gives every region the
\* page exposes (title, subtitle, body, footer) its service identifier, so the
\* footer request of a slide whose page exposes a FOOTER placeholder is among
\* the requests of the population batch.
C21_EveryExposedRegionResolved ==
    resolved.done =>
        \A k \in 1..Len(transformed.text_requests) :
            LET r == transformed.text_requests[k]
            IN  r.objectId.part \in (Regions \cap resolved.elements) =>
                    \E q \in 1..Len(resolved.requests) :
                        resolved.requests[q] =
                            InsertTextOp(ElementId(PageOfSlide, r.objectId.part), r.text)

\* C22: SlidesGenerator.transform_slide_to_requests emits an insertText for the
\* body region only for a slide that has bullets, and never one with empty text.
C22_NoEmptyBodyInsert ==
    route = "api_presentations" =>
        \A k \in OpsOfKind(all_requests, "insertText") :
            all_requests[k].objectId.part = "body" =>
                /\ all_requests[k].text # <<>>
                /\ NormalizedSlides[all_requests[k].objectId.page].content # <<>>

\* an entry that is sound but for its title: the key is absent, or the title is
\* empty or only whitespace
NoUsableTitle(e) ==
    /\ e.isDict
    /\ ~(LEGACY_KEYS \subseteq e.keys)
    /\ "content" \in e.keys
    /\ e.contentIsList
    /\ ("title" \notin e.keys \/ Strip(e.title) = <<>>)

\* C23: an outline entry at 0-based position i >= 1 without a usable title is
\* normalized, without an error, to a slide whose title is "Slide {i+1}".
C23_UntitledEntryGetsLabel ==
    (route = "create_slides" /\ Generated /\ outline.kind = "list") =>
        \A k \in 2..Len(outline.entries) :
            (/\ NoUsableTitle(outline.entries[k])
             /\ \A j \in 1..Len(outline.entries) :
                   j # k => outline.entries[j] \in WellFormedEntries)
            => LET r == GenerateSlideContentWithGpt(title, outline)
               IN  /\ ~r.raised
                   /\ r.slides[k].title = SlideLabel(k)
                   /\ slides_content = r.slides

\* the population batches of /create-slides: every batch after the first
PopulationBatches == { j \in BatchIndexes : j # FirstBatch }

\* the text requests transform_slide_content derives from normalized slide i
DerivedFrom(i) == TransformSlideContent(slides_content[i]).text_requests

\* C25: whatever ids the service returns for the creation batch, every text
\* operation of the population batch targets a placeholder of the page that the
\* createSlide of the slide it was derived from created; no slide's text goes
\* into another slide's page.
C25_TextStaysOnOwnPage ==
    route = "create_slides" =>
        \A j \in PopulationBatches :
            LET replies == calls[FirstBatch].replies
            IN  \A q \in 1..Len(calls[j].requests) :
                    LET op == calls[j].requests[q]
                    IN  \E i \in 1..Len(slides_content) :
                            /\ i <= Len(replies)
                            /\ replies[i].objectId = op.objectId.page
                            /\ \E d \in 1..Len(DerivedFrom(i)) :
                                  /\ DerivedFrom(i)[d].text = op.text
                                  /\ DerivedFrom(i)[d].objectId.part = op.objectId.part

\* two slides with different titles were populated after the service had
\* numbered their pages against the order of the requests
C25_Witness ==
    /\ route = "create_slides"
    /\ PopulationBatches # {}
    /\ Len(slides_content) = 2
    /\ slides_content[1].title # slides_content[2].title
    /\ calls[FirstBatch].replies[1].objectId = 2
    /\ Len(text_requests) = 2

\* the outline came back and no slide list could be made of it
GenerationFailed ==
    /\ Generated
    /\ \/ /\ route = "create_slides"
          /\ LET r == GenerateSlideContentWithGpt(title, outline)
             IN  r.raised \/ r.slides = <<>>
       \/ /\ route = "api_presentations"
          /\ LET parsed == GenerateContent(outline)
             IN  \/ parsed.none
                 \/ parsed.slides = <<>>
                 \/ BuildAllRequests(parsed.slides, 1, <<>>).raised

\* C26: at both entry points the presentation is created before the outline is
\* generated; when generation or normalization fails the presentation exists
\* at the service, and the creation is the only call ever made: no batch, no
\* deletion; the caller gets no identifier and no Presentation row is saved.
C26_FailedOutlineLeavesOrphan ==
    /\ Generated => (calls # <<>> /\ calls[1] = CreateCall(TRUE))
    /\ GenerationFailed =>
          /\ presentation_id = DeckId
          /\ calls = << CreateCall(TRUE) >>
          /\ pc = "done"
          /\ response.success # "true"
          /\ response.error # ""
          /\ response.deck = 0
          /\ saved = <<>>

\* normalization failed on an outline of two entries, after the presentation
\* had been created
C26_Witness ==
    /\ GenerationFailed
    /\ outline.kind = "list"
    /\ Len(outline.entries) = 2
    /\ presentation_id = DeckId
    /\ pc = "done"

\* every batch the handler had to submit was submitted and succeeded
BatchesSucceeded ==
    /\ BatchIndexes # {}
    /\ \A j \in BatchIndexes : calls[j].ok
    /\ text_requests # <<>> => PopulationBatches # {}

\* /create-slides came to "Save to database" and returned
ReachedSave ==
    /\ route = "create_slides"
    /\ pc = "done"
    /\ BatchesSucceeded
    /\ read_index = Len(slide_ids)
    /\ \A r \in CallsNamed("pages.get") : calls[r].ok

\* C27: /create-slides saves a Presentation row, with status 'completed', only
\* after the creation batch and, when there is one, the population batch
\* succeeded; whether or not the save itself succeeds, the caller gets the
\* success reply with the presentation URL.
C27_SaveAfterBatchesAndIgnored ==
    /\ (route = "create_slides" /\ saved # <<>>) =>
          /\ BatchesSucceeded
          /\ Len(saved) = 1
          /\ saved[1].status = "completed"
          /\ saved[1].google_presentation_id = presentation_id
    /\ ReachedSave => response = CsSuccess(presentation_id)

\* the save failed after both batches had succeeded
C27_Witness ==
    /\ ReachedSave
    /\ saved = <<>>
    /\ PopulationBatches # {}
    /\ response.success = "true"

\* the theme a request with this identifier gets when it is served alone
ThemeAlone(tid) == SlidesGeneratorInit(InitialThemes, tid).theme

\* C24: two compilations served at the same time, under every interleaving of
\* their statements and of their get_theme calls on the shared table, each read
\* the theme colors and produce the operations they produce when served alone.
C24_ConcurrentRequestsIndependent ==
    \A w \in Workers :
        LET alone == ReadsOf(ThemeAlone(workers[w].theme_id))
        IN  workers[w].pc \in { "style", "done" } =>
                /\ \A k \in 1..Len(workers[w].colors) : workers[w].colors[k] = alone[k]
                /\ workers[w].pc = "done" =>
                       workers[w].requests =
                           TransformSlideToRequestsWith(WorkerSlide, w, alone)

\* a request finished its slide after the other request had assigned to the
\* theme entry they share in the middle of its reads
C24_Witness ==
    \E w \in Workers :
        /\ workers[w].pc = "done"
        /\ workers[w].raced
        /\ workers[w].theme_id = "dark"
        /\ \A v \in Workers : workers[v].theme_id = workers[w].theme_id

\* some callback has logged this address in
LoggedInOnce(e) == \E i \in 1..Len(logins) : logins[i].email = e

\* the callback being served has passed the state check for this address and
\* stands before login_user
AboutToLogIn(e) ==
    /\ oauth.pc = "login_user"
    /\ oauth.email = e
    /\ session.state # NoState
    /\ session.state = oauth.arg

\* C28: the callback logs a user in, and a User row exists, only when the
\* session held a state and the request's state parameter equalled it; the
\* login removes the state from the session, and no state value completes two
\* callbacks.
C28_LoginNeedsMatchingStateOnce ==
    /\ \A i \in 1..Len(logins) :
          /\ logins[i].state # NoState
          /\ logins[i].state = logins[i].arg
          /\ logins[i].email \in users
    /\ \A i, j \in 1..Len(logins) : logins[i].state = logins[j].state => i = j
    /\ \A e \in users : LoggedInOnce(e) \/ AboutToLogIn(e)
    /\ current_user # NoUser => LoggedInOnce(current_user)
    /\ oauth.pc = "succeeded" => session.state = NoState

\* a second callback came with the state that had completed a login, and failed
C28_Witness ==
    /\ Len(logins) = 1
    /\ oauth.pc = "failed"
    /\ oauth.arg = logins[1].state
    /\ oauth.served = 1

\* C29: when a callback has failed, at whatever step, the session holds neither
\* 'state' nor 'credentials', and the callback has logged nobody in.
C29_FailedCallbackClearsSession ==
    oauth.pc = "failed" =>
        /\ session.state = NoState
        /\ ~session.credentials
        /\ current_user = oauth.user_before

\* the callback failed at the database, after it had stored the credentials
C29_Witness ==
    /\ oauth.pc = "failed"
    /\ oauth.failed_at = "database"
    /\ session = EmptySession

====
